---------------------------- MODULE Spec2Model ----------------------------
(***************************************************************************)
(* Model of src/src/qemlflow/core/enhanced_models.py (backup of            *)
(* 2025-06-16): the AutoMLModel search/commit engine and the               *)
(* EnsembleModel combiner.                                                 *)
(*                                                                         *)
(* One object is under test per behaviour: Init picks the class that is    *)
(* instantiated (AutoMLModel or EnsembleModel), the import-time flags of   *)
(* the process, the constructor arguments and the dataset.  Calls are      *)
(* sequential (the code has no concurrency): a public method is only       *)
(* entered when no other call is in progress (pc = "idle").                *)
(*                                                                         *)
(* Numbers.  Scores are Python floats; the model keeps integers.  The      *)
(* mean cross-validated scores are drawn from small integer sets and the   *)
(* arithmetic the objective applies to them (negation, square root) is     *)
(* applied as written.  Float hyperparameters are kept in thousandths.     *)
(*                                                                         *)
(* Names.  The module binds, at top level, only the names of its import    *)
(* block (lines 14-80) and of its own class and function definitions.      *)
(* RandomForestModel, SVMModel and LinearModel are imported only inside    *)
(* EnsembleModel._get_default_models (line 119) and AutoMLModel.fit (line  *)
(* 625), and train_test_split only inside EnsembleModel._fit_voting (line  *)
(* 160); these imports are function-local.  Every other use of those       *)
(* names (lines 205, 271, 359, 807, 813, 815) is a global lookup of an     *)
(* unbound name and raises NameError, as ModuleGlobals records.            *)
(***************************************************************************)
EXTENDS Integers, Sequences, FiniteSets, TLC

VARIABLES
    HAS_XGBOOST,          \* import flag, line 47/49
    HAS_LIGHTGBM,         \* import flag, line 54/56
    HAS_OPTUNA,           \* import flag, line 78/80
    cls,                  \* class of the object under test
    arg_model_types,      \* AutoMLModel(model_types=...) as passed by the caller
    optimization_metric,  \* AutoMLModel.optimization_metric
    task_type,            \* BaseModel.task_type
    ensemble_method,      \* EnsembleModel.ensemble_method
    N,                    \* len(y) of the dataset passed to fit
    y_unique,             \* len(np.unique(y))
    cv_folds,             \* self.cv_folds
    n_trials,             \* self.n_trials
    model_types,          \* AutoMLModel.model_types after the availability filter
    is_fitted,            \* BaseModel.is_fitted of the object under test
    best_model,           \* AutoMLModel.best_model
    best_params,          \* AutoMLModel.best_params
    study,                \* AutoMLModel.study
    ensemble,             \* EnsembleModel.ensemble
    base_models,          \* EnsembleModel.base_models (their fitted state)
    metric,               \* local of AutoMLModel.fit captured by the objective
    pc,                   \* position of the caller / of the running fit
    last_trial,           \* what the last objective call did
    penalized,            \* numbers of the trials whose evaluation failed (the object keeps no such record)
    ret,                  \* outcome of the last call, or the call in progress
    warned,               \* number of warnings.warn calls made by fit itself
    fit_calls,            \* fit calls entered on the object
    fit_returns,          \* fit calls that returned normally
    timeout,              \* AutoMLModel.timeout
    elapsed,              \* seconds since study.optimize was entered, as its loop reads them
    oof,                  \* rows behind the meta-model's training matrix (stacking)
    twin,                 \* trial log of a second search on the same inputs
    steps                 \* training steps an EnsembleModel fit has completed, in order

vars == << HAS_XGBOOST, HAS_LIGHTGBM, HAS_OPTUNA, cls, arg_model_types,
           optimization_metric, task_type, ensemble_method, N, y_unique,
           cv_folds, n_trials, model_types, is_fitted, best_model, best_params,
           study, ensemble, base_models, metric, pc, last_trial, penalized, ret,
           warned, fit_calls, fit_returns, timeout, elapsed, oof, twin, steps >>

-----------------------------------------------------------------------------
(* Bounds of the model *)

\* largest n_trials given to the constructor (line 584 defaults to 100)
MaxTrials == 2

\* the points the sampler draws in a hyperparameter range: its low end (0)
\* and its high end (1)
Draws == {0, 1}

\* largest mean squared error a cross-validation reports
MaxMSE == 4

\* number of base models handed to an EnsembleModel
NumBase == 2

\* dataset sizes len(y)
DatasetSizes == {3, 10}

\* cv_folds values given to the constructor (line 585 defaults to 5)
CvFoldChoices == {5}

\* seconds one trial takes
Durations == {1, 3}

-----------------------------------------------------------------------------
(* Python values *)

None == [is_none |-> TRUE]

Range(s) == {s[i] : i \in DOMAIN s}

\* a call that returned v
Returned(v) == [raised |-> "no", value |-> v]

\* a call that raised exception class e
Raised(e) == [raised |-> e, value |-> None]

Min(a, b) == IF a <= b THEN a ELSE b

\* np.sqrt on the integers of the model: the integer square root
Sqrt(x) == CHOOSE r \in 0..x : r * r <= x /\ x < (r + 1) * (r + 1)

-----------------------------------------------------------------------------
(* Module namespace and model registry *)

\* the default of model_types, line 600
AllFamilies == << "rf", "xgb", "lgb", "svm", "linear" >>

\* names bound at module level when the import block and the class
\* statements have run (lines 14-80, 83, 219-221, 307-309, 573)
ModuleGlobals ==
    { "warnings", "np", "pd", "BaseModel", "cross_val_score", "StandardScaler",
      "EnsembleModel", "AutoMLModel" }
        \cup (IF HAS_XGBOOST THEN {"xgb", "XGBoostModel"} ELSE {})
        \cup (IF HAS_LIGHTGBM THEN {"lgb", "LightGBMModel"} ELSE {})
        \cup (IF HAS_OPTUNA THEN {"optuna"} ELSE {})

\* available_models of AutoMLModel.__init__, lines 610-614
available_models ==
    << "rf", "svm", "linear" >>
        \o (IF HAS_XGBOOST THEN << "xgb" >> ELSE << >>)
        \o (IF HAS_LIGHTGBM THEN << "lgb" >> ELSE << >>)

\* [m for m in self.model_types if m in available_models], line 616
FilterAvailable(requested) ==
    LET Keep(m) == m \in Range(available_models) IN SelectSeq(requested, Keep)

\* a freshly constructed BaseModel of a family: unfitted, trained on no row
NewModel(family, params) ==
    [family |-> family, params |-> params, is_fitted |-> FALSE, rows |-> 0]

\* evaluation of the call  ClassName(task_type=..., **params)  in a method
\* body: a global lookup of ClassName, then the constructor
Construct(className, family, params) ==
    IF className \in ModuleGlobals
    THEN Returned(NewModel(family, params))
    ELSE Raised("NameError")

\* a registry whose fall-through branch builds a default model instead of
\* raising
_create_model_defaulting(model_type, params) ==
    IF model_type = "xgb" /\ HAS_XGBOOST
    THEN Construct("XGBoostModel", "xgb", params)
    ELSE IF model_type = "lgb" /\ HAS_LIGHTGBM
    THEN Construct("LightGBMModel", "lgb", params)
    ELSE Returned(NewModel("linear", params))

\* AutoMLModel._create_model, lines 803-817
_create_model(model_type, params) ==
    IF model_type = "rf"
    THEN Construct("RandomForestModel", "rf", params)
    ELSE IF model_type = "xgb" /\ HAS_XGBOOST
    THEN Construct("XGBoostModel", "xgb", params)
    ELSE IF model_type = "lgb" /\ HAS_LIGHTGBM
    THEN Construct("LightGBMModel", "lgb", params)
    ELSE IF model_type = "svm"
    THEN Construct("SVMModel", "svm", params)
    ELSE IF model_type = "linear"
    THEN Construct("LinearModel", "linear", params)
    ELSE Raised("ValueError")

-----------------------------------------------------------------------------
(* Sampler: trial.suggest_* of the search backend *)

\* trial.suggest_int / suggest_float(name, lo, hi): a point of the closed
\* range, picked by draw u
Suggest(lo, hi, u) == IF u = 0 THEN lo ELSE hi

\* trial.suggest_categorical(name, choices)
SuggestCategorical(choices, u) == choices[(u % Len(choices)) + 1]

\* the params dict built by the objective, lines 668-713
\* (floats in thousandths)
SampleParams(model_type, u) ==
    IF model_type = "rf" THEN
        [ n_estimators      |-> Suggest(50, 300, u),
          max_depth         |-> Suggest(3, 20, u),
          min_samples_split |-> Suggest(2, 20, u),
          min_samples_leaf  |-> Suggest(1, 10, u) ]
    ELSE IF model_type = "xgb" /\ HAS_XGBOOST THEN
        [ n_estimators     |-> Suggest(50, 300, u),
          learning_rate    |-> Suggest(10, 300, u),
          max_depth        |-> Suggest(3, 10, u),
          subsample        |-> Suggest(600, 1000, u),
          colsample_bytree |-> Suggest(600, 1000, u) ]
    ELSE IF model_type = "lgb" /\ HAS_LIGHTGBM THEN
        [ n_estimators     |-> Suggest(50, 300, u),
          learning_rate    |-> Suggest(10, 300, u),
          num_leaves       |-> Suggest(10, 100, u),
          feature_fraction |-> Suggest(500, 1000, u),
          bagging_fraction |-> Suggest(500, 1000, u) ]
    ELSE IF model_type = "svm" THEN
        [ C      |-> Suggest(100, 100000, u),
          gamma  |-> SuggestCategorical(<< "scale", "auto" >>, u),
          kernel |-> SuggestCategorical(<< "linear", "rbf", "poly" >>, u) ]
    ELSE IF model_type = "linear" THEN
        [ regularization |-> SuggestCategorical(<< "none", "ridge", "lasso" >>, u),
          alpha          |-> Suggest(1, 10000, u) ]
    ELSE [ k \in {} |-> 0 ]

\* a sampler that draws the family from the whole default list
SampledFamiliesAll(types) == Range(AllFamilies)

\* the choices of trial.suggest_categorical("model_type", self.model_types),
\* line 665
SampledFamilies(types) == Range(types)

\* trial.params: every name suggested in the trial, "model_type" included
TrialParams(model_type, params) ==
    [ k \in DOMAIN params \cup {"model_type"} |->
        IF k = "model_type" THEN model_type ELSE params[k] ]

\* the dict left by d.pop(key)
Pop(d, key) == [ k \in DOMAIN d \ {key} |-> d[k] ]

-----------------------------------------------------------------------------
(* Candidate evaluation: the objective of one trial *)

\* the penalty a failed candidate is given, lines 797 and 799
PenaltyMagnitude == 1000000

\* the except branch of the objective, lines 796-799
Penalty(m) == IF m \in {"rmse", "neg_mse"} THEN PenaltyMagnitude ELSE 0 - PenaltyMagnitude

\* n_splits <= 1 makes the KFold / StratifiedKFold constructor raise ValueError
FoldCtor(kind, n_splits) ==
    IF n_splits >= 2 THEN Returned([kind |-> kind, n_splits |-> n_splits])
    ELSE Raised("ValueError")

\* n_splits of the plain folds, lines 738 and 745
PlainSplits == Min(cv_folds, N \div 2)

\* choice of the fold strategy, lines 726-748
CVStrategy ==
    IF task_type = "classification" /\ y_unique > 1
    THEN LET strat == FoldCtor("StratifiedKFold", Min(cv_folds, y_unique)) IN
         IF strat.raised = "ValueError"
         THEN FoldCtor("KFold", PlainSplits)
         ELSE strat
    ELSE FoldCtor("KFold", PlainSplits)

\* scoring string handed to cross_val_score for a metric, lines 751-791
Scoring(m) ==
    IF m = "rmse" THEN "neg_mean_squared_error"
    ELSE IF m = "r2" THEN "r2"
    ELSE IF m = "accuracy" THEN "accuracy"
    ELSE "neg_mean_squared_error"

\* values scores.mean() can take for a scoring string
MeanScores(scoring) ==
    IF scoring = "neg_mean_squared_error" THEN {0 - MaxMSE, 0}
    ELSE IF scoring = "r2" THEN {0 - MaxMSE, 1}
    ELSE {0, 1}

\* outcomes of one cross_val_score(..., error_score="raise") call: it raises
\* (a fold cannot be fitted or scored) or it returns scores with a mean
CVOutcomes(m) ==
    { [raises |-> TRUE, mean |-> 0] }
        \cup { [raises |-> FALSE, mean |-> s] : s \in MeanScores(Scoring(m)) }

\* the value returned for a metric from scores.mean(), lines 751-791
ScoreOf(m, mean) ==
    IF m = "rmse" THEN Sqrt(0 - mean)
    ELSE IF m = "r2" THEN mean
    ELSE IF m = "accuracy" THEN mean
    ELSE 0 - mean

\* the try block of the objective, lines 716-791
TryBlock(model_type, params, m, cv) ==
    LET created == _create_model(model_type, params) IN
    IF created.raised # "no"
    THEN [raised |-> created.raised, value |-> 0, failed_at |-> "construct"]
    ELSE IF CVStrategy.raised # "no"
    THEN [raised |-> CVStrategy.raised, value |-> 0, failed_at |-> "folds"]
    ELSE IF cv.raises
    THEN [raised |-> "ValueError", value |-> 0, failed_at |-> "cross_val_score"]
    ELSE [raised |-> "no", value |-> ScoreOf(m, cv.mean), failed_at |-> "nowhere"]

\* an objective whose try block does not cover the model construction
ObjectiveConstructOutsideTry(model_type, params, m, cv) ==
    LET body == TryBlock(model_type, params, m, cv) IN
    IF body.raised # "no" /\ body.failed_at # "construct"
    THEN [raised |-> "no", value |-> Penalty(m), failed_at |-> body.failed_at]
    ELSE body

\* objective(trial), lines 663-799, after the sampling: the try block and
\* its  except Exception  handler
objective(model_type, params, m, cv) ==
    LET body == TryBlock(model_type, params, m, cv) IN
    IF body.raised # "no"
    THEN [raised |-> "no", value |-> Penalty(m), failed_at |-> body.failed_at]
    ELSE body

-----------------------------------------------------------------------------
(* The study of the search backend *)

\* metric chosen by fit, lines 631-640
FitMetric ==
    IF optimization_metric = "auto"
    THEN IF task_type = "regression" THEN "rmse" ELSE "accuracy"
    ELSE optimization_metric

\* direction chosen by fit, lines 631-640
Direction(m) ==
    IF optimization_metric = "auto"
    THEN IF task_type = "regression" THEN "minimize" ELSE "maximize"
    ELSE IF m \in {"rmse", "mse", "mae"} THEN "minimize" ELSE "maximize"

\* a is strictly better than b under a direction
Better(direction, a, b) == IF direction = "minimize" THEN a < b ELSE a > b

\* a study that answers with its newest trial
LastIndex(st) == Len(st.trials)

\* index of study.best_trial: the first trial no other trial is better than
BestIndex(st) ==
    CHOOSE i \in 1..Len(st.trials) :
        /\ \A j \in 1..Len(st.trials) :
              ~Better(st.direction, st.trials[j].value, st.trials[i].value)
        /\ \A j \in 1..(i - 1) :
              Better(st.direction, st.trials[i].value, st.trials[j].value)

\* a best_params that answers with a default configuration when the study
\* holds no trial
BestParamsOrDefault(st) ==
    IF Len(st.trials) = 0
    THEN Returned([model_type |-> "xgb"])
    ELSE Returned(st.trials[BestIndex(st)].params)

\* study.best_params, line 650: the params of the best trial; a study
\* without a completed trial has no best trial and the access raises
study_best_params(st) ==
    IF Len(st.trials) = 0
    THEN Raised("ValueError")
    ELSE Returned(st.trials[BestIndex(st)].params)

\* the seconds the optimize loop reads at its timeout test after a trial of d
\* seconds; the loop reads the clock only when a timeout was given
Clock(t, e, d) == IF t = None THEN e ELSE e + d

\* a loop that never looks at the clock
TimeoutIgnored(t, e) == FALSE

\* the timeout test of the optimize loop, line 647:  timeout is not None and
\* elapsed_seconds >= timeout
TimedOut(t, e) == t # None /\ e >= t.seconds

\* a budget test that lets one more trial through
BudgetSpentLate(done, limit) == done > limit

\* the budget test of the optimize loop, line 647:  i_trial >= n_trials
BudgetSpent(done, limit) == done >= limit

\* the optimize loop, before it starts a trial: it leaves when the budget is
\* spent or the timeout has expired
OptimizeStops(st, limit, t, e) ==
    BudgetSpent(Len(st.trials), limit) \/ TimedOut(t, e)

\* a log that keeps the newest trial first
RecordTrialFirst(log, rec) == << rec >> \o log

\* the trial log after a finished trial is stored
RecordTrial(log, rec) == Append(log, rec)

-----------------------------------------------------------------------------
(* fit of the candidate models *)

\* rows of X_train after train_test_split(X, y, test_size=0.2): n - ceil(n/5)
TrainRows(n) == n - ((n + 4) \div 5)

\* the metrics dict a model's fit returns
Metrics(model) == [metrics_of |-> model.family, trained_on |-> model.rows]

\* outcome of a fit call: the exception or the metrics, and the model after it
FitOutcome(raised, model) ==
    [ raised |-> raised,
      value  |-> IF raised = "no" THEN Metrics(model) ELSE None,
      model  |-> model ]

\* fit of the models of .models (RandomForestModel, SVMModel, LinearModel):
\* trains the estimator on the data it is given and sets the fitted flag, or
\* raises
BaseModel_fit(model, n, ok) ==
    IF ok
    THEN FitOutcome("no", [model EXCEPT !.is_fitted = TRUE, !.rows = n])
    ELSE FitOutcome("ValueError", model)

\* XGBoostModel.fit, lines 268-292
XGBoostModel_fit(model, n, ok) ==
    IF "train_test_split" \notin ModuleGlobals
    THEN FitOutcome("NameError", model)
    ELSE IF ok
    THEN FitOutcome("no", [model EXCEPT !.is_fitted = TRUE, !.rows = TrainRows(n)])
    ELSE FitOutcome("ValueError", model)

\* LightGBMModel.fit, lines 356-374
LightGBMModel_fit(model, n, ok) ==
    IF "train_test_split" \notin ModuleGlobals
    THEN FitOutcome("NameError", model)
    ELSE IF ok
    THEN FitOutcome("no", [model EXCEPT !.is_fitted = TRUE, !.rows = TrainRows(n)])
    ELSE FitOutcome("ValueError", model)

\* self.best_model.fit(X, y): dispatch on the class of the model
ModelFit(model, n, ok) ==
    IF model.family = "xgb" THEN XGBoostModel_fit(model, n, ok)
    ELSE IF model.family = "lgb" THEN LightGBMModel_fit(model, n, ok)
    ELSE BaseModel_fit(model, n, ok)

-----------------------------------------------------------------------------
(* Initial states *)

\* a model_types argument: None, or a list
ArgNone == [given |-> FALSE, list |-> << >>]
ArgList(l) == [given |-> TRUE, list |-> l]

\* the model_types arguments callers pass
ModelTypeArgs ==
    { ArgNone, ArgList(<< >>), ArgList(<< "xgb" >>),
      ArgList(<< "lgb", "svm" >>), ArgList(<< "catboost" >>) }

\* the metric names callers pass (line 594, and the names line 640 tests)
MetricNames == { "auto", "rmse", "r2", "accuracy", "auc", "mse", "mae" }

TaskTypes == { "regression", "classification" }

\* ensemble_method values callers pass (line 104, and the feature list line 7)
EnsembleMethods == { "voting", "stacking", "bagging" }

\* a timeout argument: None, or a number of seconds
Seconds(k) == [seconds |-> k]

\* the timeout arguments callers pass (line 586 defaults to None)
TimeoutChoices == { None, Seconds(0), Seconds(2) }

\* a caller-supplied base model, not yet fitted
UnfittedBase == [is_fitted |-> FALSE, rows |-> 0]

\* the attributes every object starts with, before its constructor body runs
InitObject ==
    /\ model_types = << >>
    /\ is_fitted = FALSE
    /\ best_model = None
    /\ best_params = None
    /\ study = None
    /\ ensemble = None
    /\ base_models = << >>
    /\ metric = "unset"
    /\ pc = "new"
    /\ last_trial = None
    /\ penalized = {}
    /\ ret = [op |-> "none", arg |-> "", raised |-> "no", value |-> None]
    /\ warned = 0
    /\ fit_calls = 0
    /\ fit_returns = 0
    /\ elapsed = 0
    /\ oof = None
    /\ twin = << >>
    /\ steps = << >>

InitData ==
    /\ N \in DatasetSizes
    /\ task_type \in TaskTypes
    /\ y_unique \in (IF task_type = "regression" THEN {N} ELSE {1, 2})
    /\ cv_folds \in CvFoldChoices
    /\ n_trials \in (IF cls = "AutoMLModel" THEN 1..MaxTrials ELSE {1})
    /\ timeout \in (IF cls = "AutoMLModel" THEN TimeoutChoices ELSE {None})

InitAutoML ==
    /\ cls = "AutoMLModel"
    /\ HAS_XGBOOST \in BOOLEAN
    /\ HAS_LIGHTGBM \in BOOLEAN
    /\ HAS_OPTUNA \in BOOLEAN
    /\ arg_model_types \in ModelTypeArgs
    /\ optimization_metric \in MetricNames
    /\ ensemble_method = "voting"

InitEnsemble ==
    /\ cls = "EnsembleModel"
    /\ HAS_XGBOOST = FALSE
    /\ HAS_LIGHTGBM = FALSE
    /\ HAS_OPTUNA = FALSE
    /\ arg_model_types = ArgNone
    /\ optimization_metric = "auto"
    /\ ensemble_method \in EnsembleMethods

Init == (InitAutoML \/ InitEnsemble) /\ InitData /\ InitObject

-----------------------------------------------------------------------------
(* AutoMLModel *)

\* outcome of a finished call of a public method
Outcome(op, arg, r) == [op |-> op, arg |-> arg, raised |-> r.raised, value |-> r.value]

\* a call that has been entered and has not finished
Running(op) == [op |-> op, arg |-> "", raised |-> "running", value |-> None]

\* a constructor that replaces only None by the default list
RequestedTypesNoneOnly(arg) ==
    IF ~arg.given THEN AllFamilies ELSE arg.list

\* self.model_types = model_types or [...], line 600:  None and [] are falsy
RequestedTypes(arg) ==
    IF ~arg.given \/ Len(arg.list) = 0 THEN AllFamilies ELSE arg.list

\* a constructor that keeps the caller's list as it is
ModelTypesUnfiltered(arg) == RequestedTypes(arg)

\* self.model_types after AutoMLModel.__init__, lines 600-616
ModelTypesOf(arg) == FilterAvailable(RequestedTypes(arg))

\* AutoMLModel.__init__, lines 580-619
AutoMLModel__init__ ==
    /\ pc = "new"
    /\ cls = "AutoMLModel"
    /\ model_types' = ModelTypesOf(arg_model_types)
    /\ arg_model_types' = ArgNone
    /\ IF Len(model_types') = 0
       THEN /\ pc' = "dead"
            /\ ret' = Outcome("__init__", "", Raised("ValueError"))
       ELSE /\ pc' = "idle"
            /\ ret' = Outcome("__init__", "", Returned(None))
    /\ UNCHANGED << HAS_XGBOOST, HAS_LIGHTGBM, HAS_OPTUNA, cls, timeout, twin, steps, elapsed, oof,
                    optimization_metric, task_type, ensemble_method, N, y_unique,
                    cv_folds, n_trials, is_fitted, best_model, best_params, study, ensemble,
                    base_models, metric, last_trial, penalized, warned, fit_calls, fit_returns >>

\* a fit that never takes the default path
BackendMissingIgnored == FALSE

\* the test  if not HAS_OPTUNA  of AutoMLModel.fit, line 623
BackendMissing == ~HAS_OPTUNA

\* AutoMLModel.fit without the search backend, lines 623-628
AutoMLModel_fit_default ==
    /\ pc = "idle"
    /\ cls = "AutoMLModel"
    /\ fit_calls = 0
    /\ BackendMissing
    /\ \E ok \in BOOLEAN :
          LET r == BaseModel_fit(NewModel("rf", [k \in {} |-> 0]), N, ok) IN
          /\ best_model' = r.model
          /\ ret' = Outcome("fit", "", r)
          /\ fit_returns' = IF r.raised = "no" THEN fit_returns + 1 ELSE fit_returns
    /\ warned' = warned + 1
    /\ fit_calls' = fit_calls + 1
    /\ UNCHANGED << HAS_XGBOOST, HAS_LIGHTGBM, HAS_OPTUNA, cls, timeout, twin, steps, elapsed, oof, arg_model_types,
                    optimization_metric, task_type, ensemble_method, N, y_unique,
                    cv_folds, n_trials, model_types, is_fitted, best_params, study, ensemble,
                    base_models, metric, pc, last_trial, penalized >>

\* AutoMLModel.fit with the search backend, lines 630-646: metric, direction,
\* optuna.create_study, and the entry into study.optimize
AutoMLModel_fit_search ==
    /\ pc = "idle"
    /\ cls = "AutoMLModel"
    /\ fit_calls = 0
    /\ ~BackendMissing
    /\ metric' = FitMetric
    /\ study' = [direction |-> Direction(FitMetric), trials |-> << >>]
    /\ pc' = "optimize"
    /\ fit_calls' = fit_calls + 1
    /\ ret' = Running("fit")
    /\ penalized' = {}
    /\ elapsed' = 0
    /\ UNCHANGED << HAS_XGBOOST, HAS_LIGHTGBM, HAS_OPTUNA, cls, timeout, twin, steps, oof, arg_model_types,
                    optimization_metric, task_type, ensemble_method, N, y_unique,
                    cv_folds, n_trials, model_types, is_fitted, best_model, best_params,
                    ensemble, base_models, last_trial, warned, fit_returns >>

\* one trial of study.optimize(objective, n_trials, timeout), line 647: the
\* sampler's draws, the objective, and the record of the trial.  An exception
\* of the objective is not caught by optimize and leaves fit.
Trial ==
    /\ pc = "optimize"
    /\ ~OptimizeStops(study, n_trials, timeout, elapsed)
    /\ \E d \in Durations : elapsed' = Clock(timeout, elapsed, d)
    /\ \E model_type \in SampledFamilies(model_types), u \in Draws, cv \in CVOutcomes(metric) :
          LET params == SampleParams(model_type, u)
              r      == objective(model_type, params, metric, cv)
          IN
          /\ last_trial' = [ model_type |-> model_type, raised |-> r.raised,
                             failed_at |-> r.failed_at, value |-> r.value,
                             started_at |-> elapsed ]
          /\ penalized' = IF r.failed_at # "nowhere"
                           THEN penalized \cup {Len(study.trials) + 1}
                           ELSE penalized
          /\ IF r.raised = "no"
             THEN /\ study' = [study EXCEPT !.trials =
                                  RecordTrial(@, [ params |-> TrialParams(model_type, params),
                                                   value  |-> r.value ])]
                  /\ UNCHANGED << pc, ret >>
             ELSE /\ pc' = "idle"
                  /\ ret' = Outcome("fit", "", Raised(r.raised))
                  /\ UNCHANGED study
    /\ UNCHANGED << HAS_XGBOOST, HAS_LIGHTGBM, HAS_OPTUNA, cls, timeout, twin, steps, oof, arg_model_types,
                    optimization_metric, task_type, ensemble_method, N, y_unique,
                    cv_folds, n_trials, model_types, is_fitted, best_model, best_params,
                    ensemble, base_models, metric, warned, fit_calls, fit_returns >>

\* the sampling of one trial of a second search made with the same
\* constructor arguments, import flags and dataset.  The constructor takes no
\* seed (lines 580-588) and optuna.create_study(direction=direction), line
\* 643, is given no sampler: the default sampler seeds itself from the
\* system's entropy, so its draws are not tied to the draws of the first
\* search.
TwinTrial ==
    /\ pc = "optimize"
    /\ Len(twin) < Len(study.trials)
    /\ \E model_type \in SampledFamilies(model_types), u \in Draws :
          twin' = Append(twin, TrialParams(model_type, SampleParams(model_type, u)))
    /\ UNCHANGED << HAS_XGBOOST, HAS_LIGHTGBM, HAS_OPTUNA, cls, timeout, steps, elapsed, oof,
                    arg_model_types, optimization_metric, task_type, ensemble_method,
                    N, y_unique, cv_folds, n_trials, model_types, is_fitted, best_model,
                    best_params, study, ensemble, base_models, metric, pc, last_trial,
                    penalized, ret, warned, fit_calls, fit_returns >>

\* AutoMLModel.fit after the search, lines 649-658
AutoMLModel_fit_commit ==
    /\ pc = "optimize"
    /\ OptimizeStops(study, n_trials, timeout, elapsed)
    /\ pc' = "idle"
    /\ last_trial' = None
    /\ IF study_best_params(study).raised # "no"
       THEN \* line 650 raises: nothing after it runs
            /\ ret' = Outcome("fit", "", study_best_params(study))
            /\ UNCHANGED << best_params, best_model, is_fitted, fit_returns >>
       ELSE LET trial_params == study_best_params(study).value
                model_type   == trial_params["model_type"]
                popped       == Pop(trial_params, "model_type")
                created      == _create_model(model_type, popped)
            IN
            /\ best_params' = popped
            /\ IF created.raised # "no"
               THEN /\ ret' = Outcome("fit", "", created)
                    /\ UNCHANGED << best_model, is_fitted, fit_returns >>
               ELSE \E ok \in BOOLEAN :
                      LET r == ModelFit(created.value, N, ok) IN
                      /\ best_model' = r.model
                      /\ ret' = Outcome("fit", "", r)
                      /\ is_fitted' = IF r.raised = "no" THEN TRUE ELSE is_fitted
                      /\ fit_returns' = IF r.raised = "no" THEN fit_returns + 1
                                        ELSE fit_returns
    /\ UNCHANGED << HAS_XGBOOST, HAS_LIGHTGBM, HAS_OPTUNA, cls, timeout, twin, steps, elapsed, oof, arg_model_types,
                    optimization_metric, task_type, ensemble_method, N, y_unique,
                    cv_folds, n_trials, model_types, study, ensemble, base_models, metric,
                    penalized, warned, fit_calls >>

\* the result of AutoMLModel.predict, lines 819-823
AutoMLPredictResult ==
    IF ~is_fitted \/ best_model = None
    THEN Raised("ValueError")
    ELSE Returned([predicted_by |-> best_model.family])

\* AutoMLModel.predict, lines 819-823
AutoMLModel_predict ==
    /\ pc = "idle"
    /\ cls = "AutoMLModel"
    /\ ret' = Outcome("predict", "", AutoMLPredictResult)
    /\ UNCHANGED << HAS_XGBOOST, HAS_LIGHTGBM, HAS_OPTUNA, cls, timeout, twin, steps, elapsed, oof, arg_model_types,
                    optimization_metric, task_type, ensemble_method, N, y_unique,
                    cv_folds, n_trials, model_types, is_fitted, best_model, best_params, study,
                    ensemble, base_models, metric, pc, last_trial, penalized, warned,
                    fit_calls, fit_returns >>

\* a get_best_params that returns whatever is stored
GetBestParamsUnchecked == Returned(best_params)

\* the result of AutoMLModel.get_best_params, lines 825-829
GetBestParamsResult ==
    IF best_params = None THEN Raised("ValueError") ELSE Returned(best_params)

\* AutoMLModel.get_best_params, lines 825-829
get_best_params ==
    /\ pc = "idle"
    /\ cls = "AutoMLModel"
    /\ ret' = Outcome("get_best_params", "", GetBestParamsResult)
    /\ UNCHANGED << HAS_XGBOOST, HAS_LIGHTGBM, HAS_OPTUNA, cls, timeout, twin, steps, elapsed, oof, arg_model_types,
                    optimization_metric, task_type, ensemble_method, N, y_unique,
                    cv_folds, n_trials, model_types, is_fitted, best_model, best_params, study,
                    ensemble, base_models, metric, pc, last_trial, penalized, warned,
                    fit_calls, fit_returns >>

\* a get_best_params that hands out the stored dict itself
ReturnsStoredIndeed == TRUE

\* whether the mapping get_best_params returns is the stored object: it is
\* self.best_params.copy(), line 829, a new dict
ReturnsStored == FALSE

\* the dict left by d.clear()
Cleared(d) == [ k \in {} |-> 0 ]

\* the caller empties the mapping the last get_best_params returned.  The
\* values of the configuration are numbers and strings, so a change made
\* through the returned mapping reaches the stored one only if the two are
\* the same object.
CallerClears ==
    /\ pc = "idle"
    /\ cls = "AutoMLModel"
    /\ ret.op = "get_best_params"
    /\ ret.raised = "no"
    /\ ret' = Outcome("caller_clear", "", Returned(Cleared(ret.value)))
    /\ best_params' = IF ReturnsStored THEN Cleared(best_params) ELSE best_params
    /\ UNCHANGED << HAS_XGBOOST, HAS_LIGHTGBM, HAS_OPTUNA, cls, timeout, twin, steps,
                    elapsed, oof, arg_model_types, optimization_metric, task_type,
                    ensemble_method, N, y_unique, cv_folds, n_trials, model_types,
                    is_fitted, best_model, study, ensemble, base_models, metric, pc,
                    last_trial, penalized, warned, fit_calls, fit_returns >>

\* the tags _create_model is called with: the closed set and a tag outside it
CallTags == Range(AllFamilies) \cup {"catboost"}

\* a direct call of AutoMLModel._create_model, lines 803-817.  The method
\* reads its arguments, task_type and the import flags, none of which a fit
\* changes: the caller makes the call on the constructed object, before fit.
CreateModelCall ==
    /\ pc = "idle"
    /\ cls = "AutoMLModel"
    /\ fit_calls = 0
    /\ \E tag \in CallTags :
          ret' = Outcome("_create_model", tag, _create_model(tag, SampleParams(tag, 0)))
    /\ UNCHANGED << HAS_XGBOOST, HAS_LIGHTGBM, HAS_OPTUNA, cls, timeout, twin, steps, elapsed, oof, arg_model_types,
                    optimization_metric, task_type, ensemble_method, N, y_unique,
                    cv_folds, n_trials, model_types, is_fitted, best_model, best_params, study,
                    ensemble, base_models, metric, pc, last_trial, penalized, warned,
                    fit_calls, fit_returns >>

-----------------------------------------------------------------------------
(* EnsembleModel *)

\* EnsembleModel.__init__, lines 90-115, with a caller-supplied list of
\* NumBase base models
EnsembleModel__init__ ==
    /\ pc = "new"
    /\ cls = "EnsembleModel"
    /\ base_models' = [i \in 1..NumBase |-> UnfittedBase]
    /\ ensemble' = None
    /\ pc' = "idle"
    /\ ret' = Outcome("__init__", "", Returned(None))
    /\ UNCHANGED << HAS_XGBOOST, HAS_LIGHTGBM, HAS_OPTUNA, cls, timeout, twin, steps, elapsed, oof, arg_model_types,
                    optimization_metric, task_type, ensemble_method, N, y_unique,
                    cv_folds, n_trials, model_types, is_fitted, best_model, best_params, study,
                    metric, last_trial, penalized, warned, fit_calls, fit_returns >>

\* the loop  for i, model in enumerate(self.base_models): model.fit(X, y)
\* (lines 141-145, 176-178) when the first k fits succeed: the models after
\* fit number k are not reached
BaseFits(models, k, n) ==
    [i \in DOMAIN models |->
        IF i <= k THEN [is_fitted |-> TRUE, rows |-> n] ELSE models[i]]

\* the combined estimator built at lines 148-153 and 190-197
NewEnsemble(method) ==
    [ kind |-> IF method = "voting"
               THEN (IF task_type = "regression" THEN "VotingRegressor"
                     ELSE "VotingClassifier")
               ELSE (IF task_type = "regression" THEN "StackingRegressor"
                     ELSE "StackingClassifier"),
      fitted |-> FALSE ]

\* fold of row i when n rows are cut into k consecutive folds, the first
\* n % k of them one row longer: the folds  cv=self.cv_folds  (lines 192, 196)
\* stands for.  A stratified cut places the rows differently and is a
\* partition of the rows all the same.
FoldOf(i, n, k) ==
    LET q == n \div k
        r == n % k
        First(f) == (f - 1) * q + Min(f - 1, r) + 1
    IN CHOOSE f \in 1..k : First(f) <= i /\ i < First(f + 1)

\* a stacking whose prediction matrix comes from the base models fitted on
\* all rows
FoldTrainRowsAll(f, n, k) == 1..n

\* rows the copies of the base models are trained on to predict fold f
FoldTrainRows(f, n, k) == { i \in 1..n : FoldOf(i, n, k) # f }

\* the matrix the final estimator is trained on in self.ensemble.fit(X, y),
\* line 200: for row i and base model b, the rows seen by the copy of b that
\* predicted row i
OutOfFold(n, k) ==
    [ rows |-> [ i \in 1..n |->
                   [ b \in 1..NumBase |-> FoldTrainRows(FoldOf(i, n, k), n, k) ] ] ]

\* a completed training step; model is the number of the base model, 0 for a
\* step on all of them
Step(name, model) == [step |-> name, model |-> model]

\* the steps of the loop  for i, model in enumerate(self.base_models):
\* model.fit(X, y)  (lines 141-145, 176-178) when its first k fits succeed
BaseLoopSteps(k) == [i \in 1..k |-> Step("base_fit_full", i)]

\* the places where self.ensemble.fit(X, y) (lines 156, 200) can raise:
\* fitting the copies of the estimators on all rows; for a stacking, cutting
\* the folds and predicting them (always, at the latest, when the rows cannot
\* be cut into cv_folds folds), and fitting the final estimator
EnsembleFitFailures(method) ==
    IF method = "stacking"
    THEN (IF N < cv_folds THEN {"copies", "folds"}
          ELSE {"copies", "folds", "meta", "none"})
    ELSE {"copies", "none"}

\* a stacking that fits its final estimator before it predicts the folds
StackingStepsMetaFirst(fail_at) ==
    IF fail_at = "none"
    THEN << Step("copies_fit_full", 0), Step("meta_fit", 0), Step("out_of_fold", 0) >>
    ELSE << >>

\* the steps self.ensemble.fit(X, y) of a stacking completes, line 200, up to
\* the place where it raises: the copies of the estimators are fitted on all
\* rows, then the folds are predicted by further copies, then the final
\* estimator is fitted on those predictions
StackingSteps(fail_at) ==
    (IF fail_at = "copies" THEN << >> ELSE << Step("copies_fit_full", 0) >>)
        \o (IF fail_at \in {"copies", "folds"} THEN << >> ELSE << Step("out_of_fold", 0) >>)
        \o (IF fail_at = "none" THEN << Step("meta_fit", 0) >> ELSE << >>)

\* the steps self.ensemble.fit(X, y) completes, lines 156 and 200
EnsembleSteps(method, fail_at) ==
    IF method = "stacking" THEN StackingSteps(fail_at)
    ELSE IF fail_at = "copies" THEN << >> ELSE << Step("copies_fit_full", 0) >>

\* the statements of a fit after the base-model loop: build the combined
\* estimator, fit it, set the flag, split, evaluate.  split_bound tells
\* whether the name train_test_split resolves: it is imported locally in
\* _fit_voting (line 160) and looked up globally in _fit_stacking (line 205)
EnsembleFitTail(method, split_bound) ==
    \E fail_at \in EnsembleFitFailures(method) :
        /\ steps' = BaseLoopSteps(NumBase) \o EnsembleSteps(method, fail_at)
        /\ IF fail_at # "none"
           THEN \* self.ensemble.fit(X, y) raises
                /\ ensemble' = NewEnsemble(method)
                /\ ret' = Outcome("fit", method, Raised("ValueError"))
                /\ UNCHANGED << is_fitted, fit_returns, oof >>
           ELSE /\ ensemble' = [NewEnsemble(method) EXCEPT !.fitted = TRUE]
                /\ oof' = IF method = "stacking" THEN OutOfFold(N, cv_folds) ELSE oof
                /\ is_fitted' = TRUE
                /\ IF split_bound
                   THEN /\ ret' = Outcome("fit", method,
                                          Returned([metrics_of |-> "ensemble", trained_on |-> N]))
                        /\ fit_returns' = fit_returns + 1
                   ELSE /\ ret' = Outcome("fit", method, Raised("NameError"))
                        /\ UNCHANGED fit_returns

\* EnsembleModel.fit with ensemble_method "voting": _fit_voting, lines 137-167
EnsembleModel_fit_voting ==
    /\ pc = "idle"
    /\ cls = "EnsembleModel"
    /\ fit_calls = 0
    /\ ensemble_method = "voting"
    /\ fit_calls' = fit_calls + 1
    /\ \E k \in 0..NumBase :
          /\ base_models' = BaseFits(base_models, k, N)
          /\ IF k < NumBase
             THEN /\ ret' = Outcome("fit", "voting", Raised("ValueError"))
                  /\ steps' = BaseLoopSteps(k)
                  /\ UNCHANGED << ensemble, is_fitted, fit_returns, oof >>
             ELSE EnsembleFitTail("voting", TRUE)
    /\ UNCHANGED << HAS_XGBOOST, HAS_LIGHTGBM, HAS_OPTUNA, cls, timeout, twin, elapsed, arg_model_types,
                    optimization_metric, task_type, ensemble_method, N, y_unique,
                    cv_folds, n_trials, model_types, best_model, best_params, study, metric,
                    pc, last_trial, penalized, warned >>

\* EnsembleModel.fit with ensemble_method "stacking": _fit_stacking, lines
\* 169-210
EnsembleModel_fit_stacking ==
    /\ pc = "idle"
    /\ cls = "EnsembleModel"
    /\ fit_calls = 0
    /\ ensemble_method = "stacking"
    /\ fit_calls' = fit_calls + 1
    /\ \E k \in 0..NumBase :
          /\ base_models' = BaseFits(base_models, k, N)
          /\ IF k < NumBase
             THEN /\ ret' = Outcome("fit", "stacking", Raised("ValueError"))
                  /\ steps' = BaseLoopSteps(k)
                  /\ UNCHANGED << ensemble, is_fitted, fit_returns, oof >>
             ELSE EnsembleFitTail("stacking", "train_test_split" \in ModuleGlobals)
    /\ UNCHANGED << HAS_XGBOOST, HAS_LIGHTGBM, HAS_OPTUNA, cls, timeout, twin, elapsed, arg_model_types,
                    optimization_metric, task_type, ensemble_method, N, y_unique,
                    cv_folds, n_trials, model_types, best_model, best_params, study, metric,
                    pc, last_trial, penalized, warned >>

\* EnsembleModel.fit with any other ensemble_method, lines 134-135
EnsembleModel_fit_unknown ==
    /\ pc = "idle"
    /\ cls = "EnsembleModel"
    /\ fit_calls = 0
    /\ ensemble_method \notin {"voting", "stacking"}
    /\ fit_calls' = fit_calls + 1
    /\ ret' = Outcome("fit", ensemble_method, Raised("ValueError"))
    /\ UNCHANGED << HAS_XGBOOST, HAS_LIGHTGBM, HAS_OPTUNA, cls, timeout, twin, steps, elapsed, oof, arg_model_types,
                    optimization_metric, task_type, ensemble_method, N, y_unique,
                    cv_folds, n_trials, model_types, is_fitted, best_model, best_params, study,
                    ensemble, base_models, metric, pc, last_trial, penalized, warned,
                    fit_returns >>

\* what a fitted base estimator predicts for one input row: a regression
\* value in sixths (6 is 1.0, 18 is 3.0), or the probability of class 1 in
\* twenty-fourths
BasePredictions == {6, 18}

RECURSIVE SumSeq(_)
SumSeq(s) == IF Len(s) = 0 THEN 0 ELSE s[1] + SumSeq(Tail(s))

\* a voting that answers with the prediction of its first estimator
VotingFirst(p) == p[1]

\* VotingRegressor(estimators=estimators).predict, lines 149 and 216: the
\* unweighted average of the estimators' predictions
VotingRegressorPredict(p) == SumSeq(p) \div Len(p)

\* VotingClassifier(estimators, voting="soft").predict, lines 151-153 and
\* 216: the class with the larger average probability, class 0 on a tie
VotingClassifierPredict(p) == IF 2 * SumSeq(p) > 24 * Len(p) THEN 1 ELSE 0

\* self.ensemble.predict(X) for one row, line 216: p are the predictions of
\* the ensemble's estimators, meta is the output of a stacking's final
\* estimator
EnsemblePredict(kind, p, meta) ==
    IF kind = "VotingRegressor" THEN VotingRegressorPredict(p)
    ELSE IF kind = "VotingClassifier" THEN VotingClassifierPredict(p)
    ELSE meta

\* the result of EnsembleModel.predict, lines 212-216
EnsemblePredictResult(p, meta) ==
    IF ~is_fitted
    THEN Raised("ValueError")
    ELSE Returned([ predicted_by |-> ensemble.kind,
                    base |-> p,
                    y |-> EnsemblePredict(ensemble.kind, p, meta) ])

\* EnsembleModel.predict, lines 212-216
EnsembleModel_predict ==
    /\ pc = "idle"
    /\ cls = "EnsembleModel"
    /\ \E p \in [1..NumBase -> BasePredictions], meta \in BasePredictions :
          ret' = Outcome("predict", "", EnsemblePredictResult(p, meta))
    /\ UNCHANGED << HAS_XGBOOST, HAS_LIGHTGBM, HAS_OPTUNA, cls, timeout, twin, steps, elapsed, oof, arg_model_types,
                    optimization_metric, task_type, ensemble_method, N, y_unique,
                    cv_folds, n_trials, model_types, is_fitted, best_model, best_params, study,
                    ensemble, base_models, metric, pc, last_trial, penalized, warned,
                    fit_calls, fit_returns >>

-----------------------------------------------------------------------------
(* Specification *)

Next ==
    \/ AutoMLModel__init__
    \/ AutoMLModel_fit_default
    \/ AutoMLModel_fit_search
    \/ Trial
    \/ AutoMLModel_fit_commit
    \/ AutoMLModel_predict
    \/ get_best_params
    \/ CreateModelCall
    \/ CallerClears
    \/ EnsembleModel__init__
    \/ EnsembleModel_fit_voting
    \/ EnsembleModel_fit_stacking
    \/ EnsembleModel_fit_unknown
    \/ EnsembleModel_predict

Spec == Init /\ [][Next]_vars

\* One fit of an AutoMLModel where the search backend is importable, from
\* the constructor to the return of fit.  No other method runs while fit is
\* running (pc = "optimize"), so the steps of a search are the same as under
\* Spec.  study.optimize runs in the thread of fit: the loop takes its next
\* step (a trial, or the statements after the loop) as long as fit is running.
\* The metric is the constructor's default (line 583): the loop tests of
\* optimize read the trial count and the clock, not the metric.
SearchInit ==
    /\ InitAutoML
    /\ HAS_OPTUNA
    /\ optimization_metric = "auto"
    /\ InitData
    /\ InitObject

SearchNext ==
    \/ AutoMLModel__init__
    \/ AutoMLModel_fit_search
    \/ Trial
    \/ AutoMLModel_fit_commit

SearchSpec ==
    /\ SearchInit
    /\ [][SearchNext]_vars
    /\ WF_vars(Trial)
    /\ WF_vars(AutoMLModel_fit_commit)

\* Two searches on the same inputs, side by side: the search of the fit, and
\* the sampling of a second search that follows it trial by trial.  Neither
\* search has a timeout, so both run n_trials trials.
TwinInit ==
    /\ InitAutoML
    /\ HAS_OPTUNA
    /\ optimization_metric = "auto"
    /\ timeout = None
    /\ InitData
    /\ InitObject

TwinNext ==
    \/ AutoMLModel__init__
    \/ AutoMLModel_fit_search
    \/ Trial
    \/ TwinTrial
    \/ AutoMLModel_fit_commit

TwinSpec == TwinInit /\ [][TwinNext]_vars

-----------------------------------------------------------------------------
(* Properties *)

\* the families whose backing library was importable
Importable ==
    {"rf", "svm", "linear"}
        \cup (IF HAS_XGBOOST THEN {"xgb"} ELSE {})
        \cup (IF HAS_LIGHTGBM THEN {"lgb"} ELSE {})

\* the numbers of the trials recorded so far
Recorded == IF study = None THEN {} ELSE 1..Len(study.trials)

\* C1: the objective of a trial never raises.  When the construction of the
\* model, the construction of the folds or cross_val_score (fitting and
\* scoring) fails, the objective returns the penalty value, the trial is
\* recorded with it and fit is still inside the search.
C1_ObjectiveNeverRaises ==
    last_trial # None =>
        /\ last_trial.raised = "no"
        /\ pc = "optimize"
        /\ Len(study.trials) >= 1
        /\ study.trials[Len(study.trials)].value = last_trial.value
        /\ last_trial.failed_at # "nowhere" =>
              last_trial.value \in {PenaltyMagnitude, 0 - PenaltyMagnitude}

\* C1 witness: a trial whose cross-validation raised was given the penalty
\* after an earlier trial, and the search goes on
C1_Witness ==
    /\ last_trial # None
    /\ last_trial.failed_at = "cross_val_score"
    /\ last_trial.value = PenaltyMagnitude
    /\ Len(study.trials) < n_trials
    /\ pc = "optimize"

\* C2: in every study, the value of every penalized trial is strictly worse,
\* under the direction of the study, than the value of every trial that
\* evaluated successfully (so the best trial is not a penalized one while a
\* successful one exists).
C2_PenaltyStrictlyWorse ==
    \A i \in Recorded \cap penalized :
        \A j \in Recorded \ penalized :
            Better(study.direction, study.trials[j].value, study.trials[i].value)

\* orientation of the number the objective returns for a metric, lines
\* 751-791: an error (cost) or a quality (gain)
Orientation(m) ==
    IF m = "rmse" THEN "cost"
    ELSE IF m = "r2" THEN "gain"
    ELSE IF m = "accuracy" THEN "gain"
    ELSE "cost"

\* C3: in every study that holds a successfully evaluated trial, the
\* direction of the study agrees with the orientation of the value the
\* objective returned for it: costs are minimized, gains are maximized.
C3_DirectionMatchesOrientation ==
    Recorded \ penalized # {} =>
        (study.direction = "minimize") = (Orientation(metric) = "cost")

\* C4: predict on an object on which no fit has completed (returned) raises
\* and returns no prediction.
C4_PredictNeedsCompletedFit ==
    (ret.op = "predict" /\ fit_returns = 0) =>
        (ret.raised # "no" /\ ret.value = None)

\* C5: get_best_params before any fit call raises and returns no
\* configuration.
C5_GetBestParamsBeforeFitRaises ==
    (ret.op = "get_best_params" /\ fit_calls = 0) =>
        (ret.raised = "ValueError" /\ ret.value = None)

\* C5 witness: get_best_params was called on a constructed AutoMLModel that
\* was never fitted
C5_Witness ==
    /\ cls = "AutoMLModel"
    /\ ret.op = "get_best_params"
    /\ fit_calls = 0
    /\ ret.raised = "ValueError"

\* C6: after a fit that returned normally, get_best_params returns a
\* non-empty configuration that carries the family tag of the winner, and
\* the tag is an available one.
C6_BestParamsCarryFamily ==
    (cls = "AutoMLModel" /\ ret.op = "get_best_params" /\ fit_returns > 0) =>
        /\ ret.raised = "no"
        /\ DOMAIN ret.value # {}
        /\ "model_type" \in DOMAIN ret.value
        /\ ret.value["model_type"] \in Importable

\* C7: the final model fit commits to after a search, whatever the winning
\* family, is trained on all N rows of the dataset passed to fit.
C7_FinalModelOnAllRows ==
    (cls = "AutoMLModel" /\ HAS_OPTUNA /\ pc = "idle" /\ best_model # None) =>
        best_model.rows = N

\* C8: without the search backend, fit runs no trial and creates no study,
\* warns once, fits one default random forest and returns the metrics of
\* that fit; when it raises, the exception is the one of the forest's fit,
\* not a missing name or import.
C8_DefaultWithoutBackend ==
    (cls = "AutoMLModel" /\ ~HAS_OPTUNA /\ fit_calls > 0) =>
        /\ study = None
        /\ Recorded = {}
        /\ last_trial = None
        /\ warned = 1
        /\ best_model # None
        /\ best_model.family = "rf"
        /\ ret.op = "fit" =>
              /\ ret.raised \notin {"NameError", "ImportError"}
              /\ ret.raised = "no" => (best_model.is_fitted /\ ret.value = Metrics(best_model))
              /\ ret.raised # "no" => ~best_model.is_fitted

\* C8 witness: a fit without the backend returned the metrics of the default
\* random forest
C8_Witness ==
    /\ cls = "AutoMLModel"
    /\ ~HAS_OPTUNA
    /\ ret.op = "fit"
    /\ ret.raised = "no"
    /\ warned = 1

\* C9: the family sampled in a trial, and the family of every recorded
\* trial, is one whose library was importable, whatever list the caller
\* passed.
C9_OnlyImportableSampled ==
    /\ last_trial # None => last_trial.model_type \in Importable
    /\ \A i \in Recorded : study.trials[i].params["model_type"] \in Importable
    /\ Range(model_types) \subseteq Importable

\* C9 witness: the caller asked for lgb and svm, lgb is not importable, and
\* two trials were recorded
C9_Witness ==
    /\ ~HAS_LIGHTGBM
    /\ model_types = << "svm" >>
    /\ Recorded = {1, 2}
    /\ last_trial # None

\* C10: _create_model called with a tag outside the closed set, or with the
\* tag of a family whose library is unavailable, raises and constructs no
\* model.
C10_UnknownTagRaises ==
    (ret.op = "_create_model" /\ ret.arg \notin Importable) =>
        (ret.raised # "no" /\ ret.value = None)

\* C10 witness: _create_model("xgb", ...) raised ValueError where xgboost is
\* not importable
C10_Witness ==
    /\ ret.op = "_create_model"
    /\ ret.arg = "xgb"
    /\ ~HAS_XGBOOST
    /\ ret.raised = "ValueError"

\* the search of a fit has been left
SearchEnded == study # None /\ pc # "optimize"

\* the timeout of the object has expired
Expired == timeout # None /\ elapsed >= timeout.seconds

\* a trial was added to the log in the step
TrialAdded == study # None /\ Len(study'.trials) > Len(study.trials)

\* C11: a search started by fit terminates; it never holds more than
\* n_trials trials; a trial is only started while the budget is not spent
\* and the timeout has not expired, and the search is left when n_trials
\* trials are recorded or the timeout has expired.
C11_SearchTerminatesWithinBudget ==
    /\ [](study # None => Len(study.trials) <= n_trials)
    /\ [](SearchEnded => (Len(study.trials) = n_trials \/ Expired))
    /\ [][TrialAdded => (Len(study.trials) < n_trials /\ ~Expired)]_vars
    /\ (pc = "optimize" ~> SearchEnded)

\* C11 witness: a search was left on the timeout after one trial, with a
\* budget of more trials
C11_Witness ==
    /\ SearchEnded
    /\ Expired
    /\ Len(study.trials) = 1
    /\ n_trials > 1

\* the last trial was running when the timeout expired
InFlightAtExpiry ==
    /\ last_trial # None
    /\ timeout # None
    /\ last_trial.started_at < timeout.seconds
    /\ elapsed >= timeout.seconds

\* C12: no trial is started once the timeout has expired; a trial that was
\* running when the timeout expired is recorded with its score at the end of
\* the log, and it is the best trial of the study when its score is better
\* than the score of every earlier trial.
C12_NoTrialAfterExpiry ==
    /\ [][TrialAdded => ~Expired]_vars
    /\ [](InFlightAtExpiry =>
            LET n == Len(study.trials) IN
            /\ n >= 1
            /\ study.trials[n].value = last_trial.value
            /\ (\A j \in 1..(n - 1) :
                   Better(study.direction, study.trials[n].value, study.trials[j].value))
                  => BestIndex(study) = n)

\* C12 witness: the second trial started before the timeout, ended after it
\* and is the best trial of the study
C12_Witness ==
    /\ InFlightAtExpiry
    /\ elapsed > timeout.seconds
    /\ Len(study.trials) = 2
    /\ last_trial.failed_at = "nowhere"
    /\ BestIndex(study) = 2

\* C13: when the search is left with no trial, fit raises and the object
\* holds no model and no configuration; when it is left with at least one
\* trial, fit goes on with the best trial of the log: best_params is the
\* configuration of that trial.
C13_NoTrialNoModel ==
    (cls = "AutoMLModel" /\ SearchEnded) =>
        IF Len(study.trials) = 0
        THEN /\ best_model = None
             /\ best_params = None
             /\ ~is_fitted
             /\ fit_returns = 0
             /\ ret.op = "fit" => ret.raised # "no"
        ELSE /\ best_params # None
             /\ best_params = Pop(study.trials[BestIndex(study)].params, "model_type")

\* C13 witness: a fit with timeout 0 left the search before its first trial
\* and raised
C13_Witness ==
    /\ SearchEnded
    /\ Len(study.trials) = 0
    /\ ret.op = "fit"
    /\ ret.raised = "ValueError"
    /\ best_model = None

\* C14: two searches with the same constructor arguments (there is no seed
\* argument), the same dataset, the same model_types and the same import
\* flags sample the same sequence of (family tag, configuration) pairs: the
\* pairs the second search has sampled are the pairs of the first search's
\* log, in order.
C14_SameSampledSequence ==
    study # None =>
        \A i \in 1..Len(twin) : twin[i] = study.trials[i].params

\* C15: in a stacking fit, every entry (i, b) of the matrix the meta-model is
\* trained on was predicted by a copy of base model b trained on rows that do
\* not include row i; the matrix has one entry per row and base model.
C15_OutOfFoldNoLeak ==
    oof # None =>
        /\ ensemble_method = "stacking"
        /\ DOMAIN oof.rows = 1..N
        /\ \A i \in DOMAIN oof.rows :
              /\ DOMAIN oof.rows[i] = 1..NumBase
              /\ \A b \in DOMAIN oof.rows[i] :
                    /\ i \notin oof.rows[i][b]
                    /\ oof.rows[i][b] # {}

\* C15 witness: a stacking fit trained its meta-model on the matrix of a
\* dataset of more rows than folds
C15_Witness ==
    /\ oof # None
    /\ ensemble # None
    /\ ensemble.fitted
    /\ N > cv_folds
    /\ \A b \in 1..NumBase : base_models[b].is_fitted

\* the base model at which the loop of a fit stopped: the first unfitted one
FailedBase == CHOOSE b \in 1..NumBase :
                 ~base_models[b].is_fitted /\ \A a \in 1..(b - 1) : base_models[a].is_fitted

\* C16: when the fit of a base model fails in a stacking fit, fit raises an
\* error that names the base model that failed, and no combined estimator and
\* no meta-model training matrix exist.
C16_BaseFailureIdentified ==
    ( /\ cls = "EnsembleModel"
      /\ ensemble_method = "stacking"
      /\ fit_calls > 0
      /\ \E b \in 1..NumBase : ~base_models[b].is_fitted ) =>
        /\ ensemble = None
        /\ oof = None
        /\ ret.op = "fit" =>
              /\ ret.raised # "no"
              /\ ret.value = [failed_model |-> FailedBase]

HeldCounts ==
    {n_trials, cv_folds}
        \cup (IF timeout = None THEN {} ELSE {timeout.seconds})
        \cup (IF study = None THEN {} ELSE {Len(study.trials)})

\* C18: after a search, the number of trials whose evaluation failed and was
\* replaced by the penalty is among the counts the AutoMLModel holds.
C18_PenalizedCountHeld ==
    (cls = "AutoMLModel" /\ SearchEnded) => Cardinality(penalized) \in HeldCounts

\* the objective of the last trial built plain folds
UsedPlainFolds ==
    /\ last_trial # None
    /\ last_trial.failed_at # "construct"
    /\ ~(task_type = "classification" /\ y_unique > 1)

\* C19: when the dataset has fewer than 2 rows per requested fold, the plain
\* folds of a trial are max(2, N // 2) in number, never fewer than 2, and the
\* trial does not fail at the construction of the folds.
C19_FoldCountAtLeastTwo ==
    (UsedPlainFolds /\ N < 2 * cv_folds) =>
        /\ PlainSplits = (IF N \div 2 > 2 THEN N \div 2 ELSE 2)
        /\ PlainSplits >= 2
        /\ last_trial.failed_at # "folds"

\* C20: during a search and after it, a step never removes or changes a
\* record of the trial log and adds at most one record, at the end; a step
\* of the running search (a trial) adds exactly one, carrying the score of
\* that trial.
C20_TrialLogAppendOnly ==
    [][ (study # None /\ study' # None) =>
          LET old == study.trials
              new == study'.trials
          IN
          /\ Len(old) <= Len(new)
          /\ Len(new) <= Len(old) + 1
          /\ \A i \in 1..Len(old) : new[i] = old[i]
          /\ (pc = "optimize" /\ pc' = "optimize") =>
                /\ Len(new) = Len(old) + 1
                /\ new[Len(new)].value = last_trial'.value
                /\ new[Len(new)].params["model_type"] = last_trial'.model_type
      ]_vars

\* C20 witness: a search has recorded two different trials and has been left
C20_Witness ==
    /\ SearchEnded
    /\ Len(study.trials) = 2
    /\ study.trials[1] # study.trials[2]
    /\ best_params # None

\* C21: when a search that recorded trials has been left, the configuration
\* fit goes on with is the configuration of a recorded trial no recorded
\* trial has a strictly better score than, under the direction of the study;
\* the final model, when it is constructed, is of that trial's family and
\* carries that configuration.
C21_FinalConfigIsOptimalTrial ==
    (cls = "AutoMLModel" /\ SearchEnded /\ Len(study.trials) > 0) =>
        \E i \in Recorded :
            /\ best_params = Pop(study.trials[i].params, "model_type")
            /\ \A j \in Recorded :
                  ~Better(study.direction, study.trials[j].value, study.trials[i].value)
            /\ best_model # None =>
                  /\ best_model.family = study.trials[i].params["model_type"]
                  /\ best_model.params = best_params

\* C21 witness: the first of two trials scored strictly better than the
\* second, and the final model was constructed from it
C21_Witness ==
    /\ SearchEnded
    /\ Len(study.trials) = 2
    /\ Better(study.direction, study.trials[1].value, study.trials[2].value)
    /\ best_params = Pop(study.trials[1].params, "model_type")
    /\ best_model # None

\* C22: when the filtered model_types holds exactly one family, the
\* constructor has returned, every trial samples that family, and a search
\* that recorded trials selects one of them: fit goes on with its
\* configuration and constructs the final model of that family or raises the
\* error of that construction.
C22_SingleFamilySearch ==
    (cls = "AutoMLModel" /\ pc # "new" /\ Len(model_types) = 1) =>
        /\ pc # "dead"
        /\ last_trial # None => last_trial.model_type = model_types[1]
        /\ \A i \in Recorded : study.trials[i].params["model_type"] = model_types[1]
        /\ (SearchEnded /\ Len(study.trials) > 0) =>
              /\ best_params # None
              /\ \E i \in Recorded :
                    best_params = Pop(study.trials[i].params, "model_type")
              /\ best_model # None => best_model.family = model_types[1]

\* C22 witness: the caller asked for lgb and svm, only svm is available, two
\* trials sampled svm and the search selected one of them
C22_Witness ==
    /\ ~HAS_LIGHTGBM
    /\ model_types = << "svm" >>
    /\ SearchEnded
    /\ Len(study.trials) = 2
    /\ best_params # None

\* positions of a step in the steps of a fit
Positions(name) == { i \in 1..Len(steps) : steps[i].step = name }

\* the steps that fit base models, or their copies, on all rows
FullFits == Positions("base_fit_full") \cup Positions("copies_fit_full")

\* a stacking fit has fitted its meta-model
MetaFitted ==
    cls = "EnsembleModel" /\ ensemble_method = "stacking" /\ Positions("meta_fit") # {}

ReachedFolds == last_trial # None /\ last_trial.failed_at # "construct"

\* the target can have enough members in every class for stratified folds:
\* it is a classification target of 2 classes or more, and the rows are
\* enough to give every class as many members as there are folds
CanStratify ==
    /\ task_type = "classification"
    /\ y_unique >= 2
    /\ N \div y_unique >= Min(cv_folds, y_unique)

\* C24: a trial is evaluated with stratified folds only when the task is
\* classification and the target has 2 classes or more with enough members
\* in each of them; a regression target or a single class gets plain folds;
\* and in no case does the trial fail at the construction of the folds.
C24_StratifiedExactlyWhenPossible ==
    ReachedFolds =>
        /\ last_trial.failed_at # "folds"
        /\ CVStrategy.raised = "no"
        /\ CVStrategy.value.kind = "StratifiedKFold" => CanStratify
        /\ ~(task_type = "classification" /\ y_unique >= 2) =>
              CVStrategy.value.kind = "KFold"

\* C25: after a fit of an AutoMLModel that returned normally, with or
\* without the search backend, a following predict and a following
\* get_best_params do not raise.
C25_UsableAfterFitReturns ==
    ( /\ cls = "AutoMLModel"
      /\ fit_returns > 0
      /\ ret.op \in {"predict", "get_best_params"} ) =>
        ret.raised = "no"

\* C26: when the only fit of an AutoMLModel raised, the object is as it was
\* before the call: not fitted, without a model and without a configuration,
\* and get_best_params still raises.
C26_FailedFitLeavesNoTrace ==
    ( /\ cls = "AutoMLModel"
      /\ pc = "idle"
      /\ fit_calls > 0
      /\ fit_returns = 0 ) =>
        /\ ~is_fitted
        /\ best_model = None
        /\ best_params = None
        /\ ret.op = "get_best_params" => ret.raised # "no"

\* C27: an EnsembleModel that is fitted holds its combined estimator, and
\* the fit that set the flag returned normally: a fit that raised leaves the
\* object unfitted.
C27_FittedMeansFitReturned ==
    (cls = "EnsembleModel" /\ is_fitted) =>
        /\ ensemble # None
        /\ fit_returns > 0

\* C28: after a fit of an AutoMLModel that returned normally, the family of
\* best_model is one of the object's model_types, also when the default
\* model was used for lack of the search backend.
C28_BestModelFamilyRequested ==
    ( /\ cls = "AutoMLModel"
      /\ fit_returns > 0
      /\ best_model # None ) =>
        best_model.family \in Range(model_types)

\* C29: the constructor of AutoMLModel raises exactly when none of the
\* families the caller asked for is available, where a caller who passed
\* None or the empty list asked for all five families: such a construction
\* never raises, and a construction that returns keeps exactly the asked
\* families that are available.
C29_ConstructorRaisesIffNoneAvailable ==
    [][ (cls = "AutoMLModel" /\ pc = "new" /\ pc' # "new") =>
          LET asked == IF ~arg_model_types.given \/ arg_model_types.list = << >>
                       THEN {"rf", "xgb", "lgb", "svm", "linear"}
                       ELSE Range(arg_model_types.list)
          IN
          /\ ret'.op = "__init__"
          /\ (ret'.raised # "no") = (asked \cap Importable = {})
          /\ (pc' = "dead") = (ret'.raised # "no")
          /\ ret'.raised = "no" => Range(model_types') = asked \cap Importable
          /\ (~arg_model_types.given \/ arg_model_types.list = << >>) =>
                /\ ret'.raised = "no"
                /\ {"rf", "svm", "linear"} \subseteq Range(model_types')
      ]_vars

\* C29 witness: the construction with a list of one unknown family raised
C29_Witness ==
    /\ cls = "AutoMLModel"
    /\ pc = "dead"
    /\ ret.op = "__init__"
    /\ ret.raised = "ValueError"
    /\ model_types = << >>

\* C30: a change the caller makes to the mapping get_best_params returned
\* changes neither the stored best_params nor the model nor the fitted flag,
\* so the next predict is not affected; and whatever the caller did before,
\* get_best_params returns the configuration fit stored: that of the best
\* trial.
C30_ReturnedMappingIsACopy ==
    /\ [][ ret'.op = "caller_clear" =>
              /\ best_params' = best_params
              /\ best_model' = best_model
              /\ is_fitted' = is_fitted ]_vars
    /\ []( (ret.op = "get_best_params" /\ ret.raised = "no") =>
              /\ ret.value = best_params
              /\ ret.value = Pop(study.trials[BestIndex(study)].params, "model_type") )

\* C30 witness: the caller emptied the returned mapping and the stored
\* configuration still holds its hyperparameters
C30_Witness ==
    /\ ret.op = "caller_clear"
    /\ DOMAIN ret.value = {}
    /\ best_params # None
    /\ DOMAIN best_params # {}

=============================================================================
